---- MODULE Spec2Model ----
(***************************************************************************)
(* The PyValidator of crates/native_blockifier/src/py_validator.rs: the    *)
(* lifecycle of its transaction executor (create / setup / teardown /      *)
(* close) and the staged validation protocol of perform_validations.       *)
(*                                                                         *)
(* The caller (the Python side of the #[pymethods] boundary) issues one    *)
(* call at a time: a handler action runs the whole method and leaves its   *)
(* arguments, its result and the stages it invoked in the call record; the *)
(* caller then takes the result (Return) before it issues the next call.   *)
(***************************************************************************)
EXTENDS Integers, Sequences, FiniteSets, TLC

\* ---------------------------------------------------------------- bounds
\* Largest value a nonce cell of the state may reach.
MaxNonce == 1
\* Largest max_nonce_for_validation_skip a validator is created with.
MaxThreshold == 1

\* Transaction nonces range one above the largest threshold.
MaxTxNonce == MaxThreshold + 1

\* Balances and committed fees take two levels and reported costs three, so
\* that a balance is below, at and above a fee, and a cost likewise.
Amount == {0, 1}
Cost == {0, 1, 2}

Address == {"a1", "a2"}
BlockInfo == {"b1", "b2"}
TxHash == {"h1", "h2"}
Detail == {"d1", "d2"}
GeneralConfig == {"cfg"}
RecursionDepth == {50}

\* ------------------------------------------------------ values and options
\* Option<T>: None is the empty set, Some(x) the singleton.
None == {}
Some(x) == {x}
is_none(o) == o = {}
is_some(o) == o # {}
unwrap(o) == CHOOSE x \in o : TRUE

\* Result values: Ok, an error of some kind with the diagnostic it carries, or
\* a panic (assert! / expect) with its message.
Ok == [kind |-> "Ok", detail |-> "-"]
Err(k, d) == [kind |-> k, detail |-> d]
Panic(msg) == [kind |-> "Panic", detail |-> msg]
IsOk(r) == r.kind = "Ok"

ShouldBeTornDown == "Transaction executor should be torn down between calls to validate"
ShouldBeInitialized == "Transaction executor should be initialized"

\* The account transactions py_account_tx yields.
AccountTransaction ==
    [kind : {"Declare", "DeployAccount", "Invoke"},
     sender_address : Address,
     nonce : 0..MaxTxNonce,
     max_fee : Amount]

\* The state a state reader serves: nonce and balance cells per address.
ReaderState ==
    [nonce : [Address -> 0..MaxNonce], balance : [Address -> Amount]]

\* What the external collaborators answer during one call: the conversion of
\* the Python transaction, the state reader's nonce read, the account
\* validate program, the full execution, and the cost the engine reports.
AllOk(c) ==
    [conv |-> Ok, read |-> Ok, validate |-> Ok, execute |-> Ok, actual_cost |-> c]
External ==
    {AllOk(c) : c \in Cost}
    \cup {[AllOk(0) EXCEPT !.conv = Err("ConversionError", d)] : d \in Detail}
    \cup {[AllOk(0) EXCEPT !.read = Err("StateReadError", d)] : d \in Detail}
    \cup {[AllOk(0) EXCEPT !.validate = Err("ValidationProgramFailure", d)] : d \in Detail}
    \cup {[AllOk(0) EXCEPT !.execute = Err("ExecutionError", d)] : d \in Detail}

\* ------------------------------------------------------------------ state
VARIABLES
    general_config,                 \* PyValidator.general_config
    max_recursion_depth,            \* PyValidator.max_recursion_depth
    max_nonce_for_validation_skip,  \* PyValidator.max_nonce_for_validation_skip
    tx_executor,                    \* PyValidator.tx_executor: None or Some(executor)
    op,                             \* the call the caller is looking at, "idle" between calls
    call_tx,                        \* its transaction argument (an option)
    call_hash,                      \* its deploy_account_tx_hash argument (an option)
    result,                         \* what the call returned
    trace,                          \* the stages the call invoked, in order, with their outcomes
    skip_validate,                  \* the skip decision the call took (an option)
    pre_executor,                   \* tx_executor as the call found it
    reported_cost,                  \* the cost the validate program reported to the call (an option)
    call_setup,                     \* the block and reader arguments of a setup call (an option)
    created_with,                   \* the arguments the constructor was called with
    txn,                            \* the transaction an accessor is called on (an option)
    accessor,                       \* the accessor called on it, "none" before a call
    answer,                         \* what the accessor returned
    client_call,                    \* the batcher client call of each caller
    requests,                       \* the requests of each caller on their way to the batcher
    responses,                      \* the outcomes of send on their way to each caller
    set_up                          \* a setup succeeded since the last teardown

config == <<general_config, max_recursion_depth, max_nonce_for_validation_skip>>
call == <<op, call_tx, call_hash, result, trace, skip_validate, pre_executor,
          reported_cost, call_setup>>
inspection == <<txn, accessor, answer>>
batcher == <<client_call, requests, responses>>
vars == <<general_config, max_recursion_depth, max_nonce_for_validation_skip,
          tx_executor, op, call_tx, call_hash, result, trace, skip_validate,
          pre_executor, reported_cost, call_setup, created_with, txn, accessor, answer, client_call, requests, responses, set_up>>

\* ------------------------------------------------- the batcher client
\* The callers that share one batcher client.
Callers == {"k1", "k2"}

\* The record of a caller that has no call going.
NoCall ==
    [pc |-> "idle", method |-> "-", request |-> [variant |-> "-"],
     sent |-> 0, consumed |-> 0, from |-> "-", got |-> [tag |-> "-"],
     result |-> [tag |-> "-"]]

NoBatcherCalls ==
    /\ client_call = [k \in Callers |-> NoCall]
    /\ requests = [k \in Callers |-> <<>>]
    /\ responses = [k \in Callers |-> <<>>]

\* ----------------------------------------------------- the executor
\* TransactionExecutor::new over a reader and a block.
TransactionExecutor_new(reader, next_block_info) ==
    [state |-> reader, block_context |-> next_block_info]

Executors ==
    {TransactionExecutor_new(r, b) : r \in ReaderState, b \in BlockInfo}

\* ------------------------------------------- the external collaborators
\* StateReader::get_nonce_at: the nonce cell, or the backend's failure.
get_nonce_at(state, address, ext) ==
    IF IsOk(ext.read)
    THEN [out |-> Ok, nonce |-> state.nonce[address]]
    ELSE [out |-> ext.read, nonce |-> 0]

\* AccountTransaction::perform_pre_validation_stage: the nonce check (exact in
\* strict mode, account nonce <= transaction nonce otherwise) increments the
\* nonce cell when it passes; then, when fees are charged, the balance must
\* cover the committed fee. Nothing is rolled back on failure.
AccountTransaction_perform_pre_validation_stage(state, tx, charge_fee, strict_nonce_check) ==
    LET account_nonce == state.nonce[tx.sender_address]
        valid_nonce ==
            IF strict_nonce_check
            THEN account_nonce = tx.nonce
            ELSE account_nonce <= tx.nonce
        incremented ==
            [state EXCEPT !.nonce[tx.sender_address] = account_nonce + 1]
    IN  IF ~valid_nonce
        THEN [out |-> Err("NonceMismatchError", "-"), state |-> state]
        ELSE IF charge_fee /\ state.balance[tx.sender_address] < tx.max_fee
        THEN [out |-> Err("FeeCheckError", "-"), state |-> incremented]
        ELSE [out |-> Ok, state |-> incremented]

\* TransactionExecutor::validate: runs the account's validate program and
\* reports its cost, or the program's failure.
TransactionExecutor_validate(e, tx, remaining_gas, ext) ==
    IF IsOk(ext.validate)
    THEN [out |-> Ok, actual_cost |-> ext.actual_cost]
    ELSE [out |-> ext.validate, actual_cost |-> 0]

\* TransactionExecutor::execute: the full execution of the transaction; on
\* success the sender's nonce cell has advanced, on failure the state is as
\* it was.
TransactionExecutor_execute(e, tx, ext) ==
    IF IsOk(ext.execute)
    THEN [out |-> Ok,
          executor |-> [e EXCEPT !.state.nonce[tx.sender_address] = @ + 1]]
    ELSE [out |-> ext.execute, executor |-> e]

\* PostValidationReport::verify: the actual cost against the commitment.
PostValidationReport_verify(block_context, tx, actual_cost) ==
    IF actual_cost > tx.max_fee
    THEN Err("ResourceBoundsExceededError", "-")
    ELSE Ok

\* Transaction::initial_gas()
initial_gas == "initial_gas"

\* ------------------------------------------------- the validator's stages
\* One entry of the trace: a stage that was invoked and what it returned.
Stage(s, out) == [stage |-> s, out |-> out]
Stages(t) == [i \in 1..Len(t) |-> t[i].stage]

\* What a handler hands back: its result, the stages it invoked, the
\* executor it leaves in the validator, and the skip decision it took.
Ret(r, t, ex, skip) ==
    [result |-> r, trace |-> t, tx_executor |-> ex, skip_validate |-> skip]

\* fn tx_executor(&mut self): the executor, or a panic when there is none.
\* Every use of self.tx_executor by a stage goes through the option first.
tx_executor_expect(ex) ==
    IF is_some(ex) THEN Ok ELSE Panic(ShouldBeInitialized)

\* A variant of the skip check whose threshold comparison is strict.
skip_validate_strict_threshold(e, tx, deploy_account_tx_hash, max_skip, ext) ==
    LET read == get_nonce_at(e.state, tx.sender_address, ext)
    IN  IF ~IsOk(read.out)
        THEN [out |-> read.out, skip_validate |-> None]
        ELSE [out |-> Ok,
              skip_validate |->
                  Some(/\ is_some(deploy_account_tx_hash) /\ read.nonce = 0
                       /\ 1 <= tx.nonce
                       /\ tx.nonce < max_skip)]

\* A variant that takes the hint only when it names one known transaction.
skip_validate_for_known_hash(e, tx, deploy_account_tx_hash, max_skip, ext) ==
    LET read == get_nonce_at(e.state, tx.sender_address, ext)
    IN  IF ~IsOk(read.out)
        THEN [out |-> read.out, skip_validate |-> None]
        ELSE [out |-> Ok,
              skip_validate |->
                  Some(/\ deploy_account_tx_hash = Some("h1")
                       /\ read.nonce = 0
                       /\ 1 <= tx.nonce
                       /\ tx.nonce <= max_skip)]

\* A variant that takes a transaction nonce of 0 for a post-deploy nonce.
skip_validate_from_nonce_zero(e, tx, deploy_account_tx_hash, max_skip, ext) ==
    LET read == get_nonce_at(e.state, tx.sender_address, ext)
    IN  IF ~IsOk(read.out)
        THEN [out |-> read.out, skip_validate |-> None]
        ELSE [out |-> Ok,
              skip_validate |->
                  Some(/\ is_some(deploy_account_tx_hash)
                       /\ read.nonce = 0
                       /\ tx.nonce <= max_skip)]

\* A variant that does not look at the account's nonce.
skip_validate_ignoring_account_nonce(e, tx, deploy_account_tx_hash, max_skip, ext) ==
    LET read == get_nonce_at(e.state, tx.sender_address, ext)
    IN  IF ~IsOk(read.out)
        THEN [out |-> read.out, skip_validate |-> None]
        ELSE [out |-> Ok,
              skip_validate |->
                  Some(/\ is_some(deploy_account_tx_hash)
                       /\ 1 <= tx.nonce
                       /\ tx.nonce <= max_skip)]

\* fn skip_validate_due_to_unprocessed_deploy_account
skip_validate_due_to_unprocessed_deploy_account(e, tx, deploy_account_tx_hash, max_skip, ext) ==
    LET read == get_nonce_at(e.state, tx.sender_address, ext)
        nonce == read.nonce
        tx_nonce == tx.nonce
        deploy_account_not_processed ==
            is_some(deploy_account_tx_hash) /\ nonce = 0
        is_post_deploy_nonce == 1 <= tx_nonce
        nonce_small_enough_to_qualify_for_validation_skip ==
            tx_nonce <= max_skip
    IN  IF ~IsOk(read.out)
        THEN [out |-> read.out, skip_validate |-> None]
        ELSE [out |-> Ok,
              skip_validate |->
                  Some(deploy_account_not_processed
                       /\ is_post_deploy_nonce
                       /\ nonce_small_enough_to_qualify_for_validation_skip)]

\* A variant that asks for the strict nonce check.
pre_validation_strict_nonce(e, tx) ==
    LET r == AccountTransaction_perform_pre_validation_stage(
                 e.state, tx, TRUE, TRUE)
    IN  [out |-> r.out, executor |-> [e EXCEPT !.state = r.state]]

\* A variant that does not charge fees.
pre_validation_without_fee(e, tx) ==
    LET r == AccountTransaction_perform_pre_validation_stage(
                 e.state, tx, FALSE, FALSE)
    IN  [out |-> r.out, executor |-> [e EXCEPT !.state = r.state]]

\* A variant that runs the checks on a copy of the state.
pre_validation_on_copy(e, tx) ==
    LET r == AccountTransaction_perform_pre_validation_stage(
                 e.state, tx, TRUE, FALSE)
    IN  [out |-> r.out, executor |-> e]

\* A variant that takes the nonce increment back whenever the stage fails,
\* whether or not the stage had made it.
pre_validation_with_compensation(e, tx) ==
    LET r == AccountTransaction_perform_pre_validation_stage(
                 e.state, tx, TRUE, FALSE)
        a == tx.sender_address
    IN  IF IsOk(r.out)
        THEN [out |-> r.out, executor |-> [e EXCEPT !.state = r.state]]
        ELSE [out |-> r.out,
              executor |-> [e EXCEPT !.state =
                               [r.state EXCEPT !.nonce[a] = r.state.nonce[a] - 1]]]

\* fn perform_pre_validation_stage
perform_pre_validation_stage(e, tx) ==
    LET strict_nonce_check == FALSE
        charge_fee == TRUE
        r == AccountTransaction_perform_pre_validation_stage(
                 e.state, tx, charge_fee, strict_nonce_check)
    IN  [out |-> r.out, executor |-> [e EXCEPT !.state = r.state]]

\* fn validate (the private one perform_validations calls)
validate(e, tx, remaining_gas, ext) ==
    TransactionExecutor_validate(e, tx, remaining_gas, ext)

\* fn perform_post_validation_stage
perform_post_validation_stage(e, tx, actual_cost) ==
    PostValidationReport_verify(e.block_context, tx, actual_cost)

\* pub fn execute
execute(e, tx, ext) ==
    TransactionExecutor_execute(e, tx, ext)

\* A variant that leaves out the post-validation report.
validate_without_post_validation(e, tx, skip, ext, t) ==
    LET v == validate(e, tx, initial_gas, ext)
    IN  Ret(v.out, Append(t, Stage("validate", v.out)), Some(e), skip)

\* A variant that runs the validate program a second time when it fails.
validate_with_retry(e, tx, skip, ext, t) ==
    LET v == validate(e, tx, initial_gas, ext)
        t3 == Append(t, Stage("validate", v.out))
        w == IF IsOk(v.out) THEN v ELSE validate(e, tx, initial_gas, ext)
        t4 == IF IsOk(v.out) THEN t3 ELSE Append(t3, Stage("validate", w.out))
    IN  IF ~IsOk(w.out)
        THEN Ret(w.out, t4, Some(e), skip)
        ELSE LET q == perform_post_validation_stage(e, tx, w.actual_cost)
             IN  Ret(q, Append(t4, Stage("post_validation", q)), Some(e), skip)

\* A variant that drops the result of the post-validation report.
validate_and_ignore_report(e, tx, skip, ext, t) ==
    LET v == validate(e, tx, initial_gas, ext)
        t3 == Append(t, Stage("validate", v.out))
    IN  IF ~IsOk(v.out)
        THEN Ret(v.out, t3, Some(e), skip)
        ELSE LET q == perform_post_validation_stage(e, tx, v.actual_cost)
             IN  Ret(Ok, Append(t3, Stage("post_validation", q)), Some(e), skip)

\* perform_validations, from the `__validate__` call on: the validate program
\* with the initial gas, then the post-validation report on its cost.
validate_and_post_validate(e, tx, skip, ext, t) ==
    LET v == validate(e, tx, initial_gas, ext)
        t3 == Append(t, Stage("validate", v.out))
    IN  IF ~IsOk(v.out)
        THEN Ret(v.out, t3, Some(e), skip)
        ELSE LET q == perform_post_validation_stage(e, tx, v.actual_cost)
             IN  Ret(q, Append(t3, Stage("post_validation", q)), Some(e), skip)

\* A variant that takes no early return for a skipped transaction.
skip_check_ignored(e, max_skip, tx, deploy_account_tx_hash, ext) ==
    LET s == skip_validate_due_to_unprocessed_deploy_account(
                 e, tx, deploy_account_tx_hash, max_skip, ext)
        t1 == <<Stage("skip_check", s.out)>>
    IN  IF ~IsOk(s.out)
        THEN Ret(s.out, t1, Some(e), None)
        ELSE LET p == perform_pre_validation_stage(e, tx)
                 t2 == Append(t1, Stage("pre_validation", p.out))
             IN  IF ~IsOk(p.out)
                 THEN Ret(p.out, t2, Some(p.executor), s.skip_validate)
                 ELSE validate_and_post_validate(
                          p.executor, tx, s.skip_validate, ext, t2)

\* A variant that returns for a skipped transaction before pre-validation.
skip_before_pre_validation(e, max_skip, tx, deploy_account_tx_hash, ext) ==
    LET s == skip_validate_due_to_unprocessed_deploy_account(
                 e, tx, deploy_account_tx_hash, max_skip, ext)
        t1 == <<Stage("skip_check", s.out)>>
    IN  IF ~IsOk(s.out)
        THEN Ret(s.out, t1, Some(e), None)
        ELSE IF unwrap(s.skip_validate)
        THEN Ret(Ok, t1, Some(e), s.skip_validate)
        ELSE LET p == perform_pre_validation_stage(e, tx)
                 t2 == Append(t1, Stage("pre_validation", p.out))
             IN  IF ~IsOk(p.out)
                 THEN Ret(p.out, t2, Some(p.executor), s.skip_validate)
                 ELSE validate_and_post_validate(
                          p.executor, tx, s.skip_validate, ext, t2)

\* A variant whose skip check advances the sender's nonce cell as it reads it.
skip_check_consuming_nonce(e, max_skip, tx, deploy_account_tx_hash, ext) ==
    LET s == skip_validate_due_to_unprocessed_deploy_account(
                 e, tx, deploy_account_tx_hash, max_skip, ext)
        t1 == <<Stage("skip_check", s.out)>>
        e1 == [e EXCEPT !.state.nonce[tx.sender_address] = @ + 1]
    IN  IF ~IsOk(s.out)
        THEN Ret(s.out, t1, Some(e1), None)
        ELSE LET p == perform_pre_validation_stage(e1, tx)
                 t2 == Append(t1, Stage("pre_validation", p.out))
             IN  IF ~IsOk(p.out)
                 THEN Ret(p.out, t2, Some(p.executor), s.skip_validate)
                 ELSE IF unwrap(s.skip_validate)
                 THEN Ret(Ok, t2, Some(p.executor), s.skip_validate)
                 ELSE validate_and_post_validate(
                          p.executor, tx, s.skip_validate, ext, t2)

\* A variant that runs pre-validation first and takes the skip decision from
\* the state pre-validation has left.
skip_check_after_pre_validation(e, max_skip, tx, deploy_account_tx_hash, ext) ==
    LET p == perform_pre_validation_stage(e, tx)
        t1 == <<Stage("pre_validation", p.out)>>
        s == skip_validate_due_to_unprocessed_deploy_account(
                 p.executor, tx, deploy_account_tx_hash, max_skip, ext)
        t2 == Append(t1, Stage("skip_check", s.out))
    IN  IF ~IsOk(p.out)
        THEN Ret(p.out, t1, Some(p.executor), None)
        ELSE IF ~IsOk(s.out)
        THEN Ret(s.out, t2, Some(p.executor), None)
        ELSE IF unwrap(s.skip_validate)
        THEN Ret(Ok, t2, Some(p.executor), s.skip_validate)
        ELSE validate_and_post_validate(p.executor, tx, s.skip_validate, ext, t2)

\* A variant that puts the state back as it was when pre-validation fails.
pre_validation_rolled_back(e, max_skip, tx, deploy_account_tx_hash, ext) ==
    LET s == skip_validate_due_to_unprocessed_deploy_account(
                 e, tx, deploy_account_tx_hash, max_skip, ext)
        t1 == <<Stage("skip_check", s.out)>>
    IN  IF ~IsOk(s.out)
        THEN Ret(s.out, t1, Some(e), None)
        ELSE LET p == perform_pre_validation_stage(e, tx)
                 t2 == Append(t1, Stage("pre_validation", p.out))
             IN  IF ~IsOk(p.out)
                 THEN Ret(p.out, t2, Some(e), s.skip_validate)
                 ELSE IF unwrap(s.skip_validate)
                 THEN Ret(Ok, t2, Some(p.executor), s.skip_validate)
                 ELSE validate_and_post_validate(
                          p.executor, tx, s.skip_validate, ext, t2)

\* A variant that takes a failed nonce read for "do not skip" and goes on.
failed_read_taken_as_no_skip(e, max_skip, tx, deploy_account_tx_hash, ext) ==
    LET s == skip_validate_due_to_unprocessed_deploy_account(
                 e, tx, deploy_account_tx_hash, max_skip, ext)
        t1 == <<Stage("skip_check", s.out)>>
        skip == IF IsOk(s.out) THEN s.skip_validate ELSE Some(FALSE)
        p == perform_pre_validation_stage(e, tx)
        t2 == Append(t1, Stage("pre_validation", p.out))
    IN  IF ~IsOk(p.out)
        THEN Ret(p.out, t2, Some(p.executor), skip)
        ELSE IF unwrap(skip)
        THEN Ret(Ok, t2, Some(p.executor), skip)
        ELSE validate_and_post_validate(p.executor, tx, skip, ext, t2)

\* perform_validations for a transaction that is no DeployAccount: the skip
\* check first (it reads the nonce that pre-validation is about to change),
\* then pre-validation, then the early return of a skipped transaction.
skip_check_and_pre_validate(e, max_skip, tx, deploy_account_tx_hash, ext) ==
    LET s == skip_validate_due_to_unprocessed_deploy_account(
                 e, tx, deploy_account_tx_hash, max_skip, ext)
        t1 == <<Stage("skip_check", s.out)>>
    IN  IF ~IsOk(s.out)
        THEN Ret(s.out, t1, Some(e), None)
        ELSE LET p == perform_pre_validation_stage(e, tx)
                 t2 == Append(t1, Stage("pre_validation", p.out))
             IN  IF ~IsOk(p.out)
                 THEN Ret(p.out, t2, Some(p.executor), s.skip_validate)
                 ELSE IF unwrap(s.skip_validate)
                 THEN Ret(Ok, t2, Some(p.executor), s.skip_validate)
                 ELSE validate_and_post_validate(
                          p.executor, tx, s.skip_validate, ext, t2)

\* A variant that takes a missing executor for nothing to validate.
perform_validations_unchecked(ex, max_skip, tx, deploy_account_tx_hash, ext) ==
    IF ~IsOk(ext.conv)
    THEN Ret(ext.conv, <<>>, ex, None)
    ELSE IF is_none(ex)
    THEN Ret(Ok, <<>>, ex, None)
    ELSE IF tx.kind = "DeployAccount"
    THEN LET x == execute(unwrap(ex), tx, ext)
         IN  Ret(x.out, <<Stage("execute", x.out)>>, Some(x.executor), None)
    ELSE skip_check_and_pre_validate(
             unwrap(ex), max_skip, tx, deploy_account_tx_hash, ext)

\* A variant that goes on to the validations after executing a DeployAccount.
perform_validations_after_execute(ex, max_skip, tx, deploy_account_tx_hash, ext) ==
    IF ~IsOk(ext.conv)
    THEN Ret(ext.conv, <<>>, ex, None)
    ELSE IF ~IsOk(tx_executor_expect(ex))
    THEN Ret(tx_executor_expect(ex), <<>>, ex, None)
    ELSE IF tx.kind = "DeployAccount"
    THEN LET x == execute(unwrap(ex), tx, ext)
             t1 == <<Stage("execute", x.out)>>
         IN  IF ~IsOk(x.out)
             THEN Ret(x.out, t1, Some(x.executor), None)
             ELSE validate_and_post_validate(x.executor, tx, None, ext, t1)
    ELSE skip_check_and_pre_validate(
             unwrap(ex), max_skip, tx, deploy_account_tx_hash, ext)

\* pub fn perform_validations
perform_validations(ex, max_skip, tx, deploy_account_tx_hash, ext) ==
    IF ~IsOk(ext.conv)
    THEN Ret(ext.conv, <<>>, ex, None)
    ELSE IF ~IsOk(tx_executor_expect(ex))
    THEN Ret(tx_executor_expect(ex), <<>>, ex, None)
    ELSE IF tx.kind = "DeployAccount"
    THEN LET x == execute(unwrap(ex), tx, ext)
         IN  Ret(x.out, <<Stage("execute", x.out)>>, Some(x.executor), None)
    ELSE skip_check_and_pre_validate(
             unwrap(ex), max_skip, tx, deploy_account_tx_hash, ext)

\* pub fn execute, as a call of its own
py_execute(ex, tx, ext) ==
    IF ~IsOk(tx_executor_expect(ex))
    THEN Ret(tx_executor_expect(ex), <<>>, ex, None)
    ELSE IF ~IsOk(ext.conv)
    THEN Ret(ext.conv, <<>>, ex, None)
    ELSE LET x == execute(unwrap(ex), tx, ext)
         IN  Ret(x.out, <<Stage("execute", x.out)>>, Some(x.executor), None)

\* pub fn validate, as a call of its own
py_validate(ex, tx, remaining_gas, ext) ==
    IF ~IsOk(ext.conv)
    THEN Ret(ext.conv, <<>>, ex, None)
    ELSE IF ~IsOk(tx_executor_expect(ex))
    THEN Ret(tx_executor_expect(ex), <<>>, ex, None)
    ELSE LET v == TransactionExecutor_validate(unwrap(ex), tx, remaining_gas, ext)
         IN  Ret(v.out, <<Stage("validate", v.out)>>, ex, None)

\* A variant that builds an executor only when there is none, and keeps a
\* live one over its old reader.
setup_reuses_executor(ex, next_block_info, reader, new_out) ==
    IF is_some(ex)
    THEN [result |-> Ok, tx_executor |-> ex]
    ELSE IF ~IsOk(new_out)
    THEN [result |-> new_out, tx_executor |-> ex]
    ELSE [result |-> Ok,
          tx_executor |-> Some(TransactionExecutor_new(reader, next_block_info))]

\* A variant without the assertion: it replaces a live executor.
setup_without_assert(ex, next_block_info, reader, new_out) ==
    IF ~IsOk(new_out)
    THEN [result |-> new_out, tx_executor |-> ex]
    ELSE [result |-> Ok,
          tx_executor |-> Some(TransactionExecutor_new(reader, next_block_info))]

\* fn setup_validation_context: asserts that no executor is live, then
\* stores a new one over the given reader and block.
setup_validation_context(ex, next_block_info, reader, new_out) ==
    IF ~is_none(ex)
    THEN [result |-> Panic(ShouldBeTornDown), tx_executor |-> ex]
    ELSE IF ~IsOk(new_out)
    THEN [result |-> new_out, tx_executor |-> ex]
    ELSE [result |-> Ok,
          tx_executor |-> Some(TransactionExecutor_new(reader, next_block_info))]

\* A variant that leaves the executor in place.
teardown_keeps_executor(ex) == ex

\* fn teardown_validation_context
teardown_validation_context(ex) == None

\* pub fn close
close(ex) == teardown_validation_context(ex)

\* ---------------------------------------------------------------- actions
\* No nonce cell above the bound of the model: the model makes a call that
\* can advance a cell only on such an executor, so that a cell goes one above
\* the bound at most.
NonceBounded(ex) ==
    \A e \in ex : \A a \in Address : e.state.nonce[a] <= MaxNonce

\* The cost the engine reported to a call, if its validate program ran to
\* its end.
Reported(r, ext) ==
    IF \E i \in 1..Len(r.trace) :
           r.trace[i].stage = "validate" /\ IsOk(r.trace[i].out)
    THEN Some(ext.actual_cost)
    ELSE None

\* The call record of a call.
Called(name, tx, hash, r) ==
    /\ op' = name
    /\ call_tx' = tx
    /\ call_hash' = hash
    /\ result' = r.result
    /\ trace' = r.trace
    /\ skip_validate' = r.skip_validate
    /\ pre_executor' = tx_executor

\* PyValidator::create: the configuration as given, and an executor over the
\* given reader and block.
Init ==
    /\ general_config \in GeneralConfig
    /\ max_recursion_depth \in RecursionDepth
    /\ max_nonce_for_validation_skip \in 0..MaxThreshold
    /\ tx_executor \in {Some(e) : e \in Executors}
    /\ op = "create"
    /\ call_tx = None
    /\ call_hash = None
    /\ result = Ok
    /\ trace = <<>>
    /\ skip_validate = None
    /\ pre_executor = None
    /\ reported_cost = None
    /\ call_setup = None
    /\ created_with =
           [general_config |-> general_config,
            max_recursion_depth |-> max_recursion_depth,
            max_nonce_for_validation_skip |-> Some(max_nonce_for_validation_skip)]
    /\ txn = None
    /\ accessor = "none"
    /\ answer = None
    /\ NoBatcherCalls
    /\ set_up = FALSE

Setup(next_block_info, reader, new_out) ==
    /\ op = "idle"
    /\ LET r == setup_validation_context(tx_executor, next_block_info, reader, new_out)
       IN  /\ tx_executor' = r.tx_executor
           /\ set_up' = (set_up \/ IsOk(r.result))
           /\ Called("setup_validation_context", None, None,
                     Ret(r.result, <<>>, r.tx_executor, None))
    /\ reported_cost' = None
    /\ call_setup' = Some([next_block_info |-> next_block_info, reader |-> reader])
    /\ UNCHANGED <<config, created_with, inspection, batcher>>

Teardown ==
    /\ op = "idle"
    /\ tx_executor' = teardown_validation_context(tx_executor)
    /\ set_up' = FALSE
    /\ Called("teardown_validation_context", None, None, Ret(Ok, <<>>, None, None))
    /\ reported_cost' = None
    /\ call_setup' = None
    /\ UNCHANGED <<config, created_with, inspection, batcher>>

Close ==
    /\ op = "idle"
    /\ tx_executor' = close(tx_executor)
    /\ set_up' = FALSE
    /\ Called("close", None, None, Ret(Ok, <<>>, None, None))
    /\ reported_cost' = None
    /\ call_setup' = None
    /\ UNCHANGED <<config, created_with, inspection, batcher>>

PerformValidations(tx, deploy_account_tx_hash, ext) ==
    /\ op = "idle"
    /\ LET r == perform_validations(tx_executor, max_nonce_for_validation_skip,
                                    tx, deploy_account_tx_hash, ext)
       IN  /\ NonceBounded(tx_executor)
           /\ tx_executor' = r.tx_executor
           /\ Called("perform_validations", Some(tx), deploy_account_tx_hash, r)
           /\ reported_cost' = Reported(r, ext)
    /\ call_setup' = None
    /\ UNCHANGED <<config, created_with, inspection, batcher, set_up>>

Execute(tx, ext) ==
    /\ op = "idle"
    /\ LET r == py_execute(tx_executor, tx, ext)
       IN  /\ NonceBounded(tx_executor)
           /\ tx_executor' = r.tx_executor
           /\ Called("execute", Some(tx), None, r)
           /\ reported_cost' = Reported(r, ext)
    /\ call_setup' = None
    /\ UNCHANGED <<config, created_with, inspection, batcher, set_up>>

Validate(tx, ext) ==
    /\ op = "idle"
    /\ LET r == py_validate(tx_executor, tx, initial_gas, ext)
       IN  /\ tx_executor' = r.tx_executor
           /\ Called("validate", Some(tx), None, r)
           /\ reported_cost' = Reported(r, ext)
    /\ call_setup' = None
    /\ UNCHANGED <<config, created_with, inspection, batcher, set_up>>

\* The caller takes the result of the call; the validator is as the call
\* left it.
Return ==
    /\ op # "idle"
    /\ op' = "idle"
    /\ call_tx' = None
    /\ call_hash' = None
    /\ result' = Ok
    /\ trace' = <<>>
    /\ skip_validate' = None
    /\ pre_executor' = None
    /\ reported_cost' = None
    /\ call_setup' = None
    /\ UNCHANGED <<config, created_with, inspection, batcher, tx_executor, set_up>>

OptionalHash == {None} \cup {Some(h) : h \in TxHash}
NewOutcome == {Ok} \cup {Err("TransactionExecutorError", d) : d \in Detail}

Next ==
    \/ \E b \in BlockInfo, r \in ReaderState, o \in NewOutcome : Setup(b, r, o)
    \/ Teardown
    \/ Close
    \/ \E tx \in AccountTransaction, h \in OptionalHash, ext \in External :
           PerformValidations(tx, h, ext)
    \/ \E tx \in AccountTransaction, ext \in External : Execute(tx, ext)
    \/ \E tx \in AccountTransaction, ext \in External : Validate(tx, ext)
    \/ Return

Spec == Init /\ [][Next]_vars

\* The recursion depths create_for_testing is called with, and the values
\* it writes into the fields.
TestingRecursionDepth == {50, 51}
TestingMaxRecursionDepth == 50
TestingMaxNonceForValidationSkip == 1

\* PyValidator::create_for_testing: an executor over the given reader and
\* block with the given recursion depth; the fields max_recursion_depth and
\* max_nonce_for_validation_skip are written as 50 and Nonce(ONE).
InitForTesting ==
    /\ general_config \in GeneralConfig
    /\ max_recursion_depth = TestingMaxRecursionDepth
    /\ max_nonce_for_validation_skip = TestingMaxNonceForValidationSkip
    /\ tx_executor \in {Some(e) : e \in Executors}
    /\ op = "create_for_testing"
    /\ call_tx = None
    /\ call_hash = None
    /\ result = Ok
    /\ trace = <<>>
    /\ skip_validate = None
    /\ pre_executor = None
    /\ reported_cost = None
    /\ call_setup = None
    /\ \E d \in TestingRecursionDepth :
           created_with =
               [general_config |-> general_config,
                max_recursion_depth |-> d,
                max_nonce_for_validation_skip |-> None]
    /\ txn = None
    /\ accessor = "none"
    /\ answer = None
    /\ NoBatcherCalls
    /\ set_up = FALSE

SpecForTesting == InitForTesting /\ [][Next]_vars

\* ------------------------------------------------ the transaction model
\* The field types of transaction.rs, each a small set of values.
Fee == Amount
Nonce == 0..MaxNonce
TransactionSignature == {"s1", "s2"}
ResourceBounds == {"r1", "r2"}
Tip == {"t1"}
StorageDomain == {"OnChain"}
ClassHash == {"c1"}
CompiledClassHash == {"cc1"}
ContractAddress == {"a1"}
ContractAddressSalt == {"salt1"}
Calldata == {"cd1"}
EntryPointSelector == {"sel1"}
TransactionVersion == {0, 1}

AccountParams ==
    [max_fee : Fee, signature : TransactionSignature, nonce : Nonce]

TransactionParamsV3 ==
    [signature : TransactionSignature, nonce : Nonce,
     nonce_da_mode : StorageDomain, fee_da_mode : StorageDomain,
     resource_bounds : ResourceBounds, tip : Tip]

DeclareTransactionV0V1 ==
    [account_params : AccountParams, class_hash : ClassHash,
     sender_address : ContractAddress]

DeclareTransactionV2 ==
    [account_params : AccountParams, class_hash : ClassHash,
     compiled_class_hash : CompiledClassHash, sender_address : ContractAddress]

DeclareTransactionV3 ==
    [transaction_params : TransactionParamsV3, class_hash : ClassHash,
     compiled_class_hash : CompiledClassHash, sender_address : ContractAddress]

\* A value of an enum is its variant tag with the variant's payload.
DeclareTransaction ==
    [variant : {"V0", "V1"}, tx : DeclareTransactionV0V1]
        \cup [variant : {"V2"}, tx : DeclareTransactionV2]
        \cup [variant : {"V3"}, tx : DeclareTransactionV3]

DeployAccountTransactionV1 ==
    [account_params : AccountParams, class_hash : ClassHash,
     contract_address_salt : ContractAddressSalt, constructor_calldata : Calldata]

DeployAccountTransactionV3 ==
    [transaction_params : TransactionParamsV3, class_hash : ClassHash,
     contract_address_salt : ContractAddressSalt, constructor_calldata : Calldata]

DeployAccountTransaction ==
    [variant : {"V1"}, tx : DeployAccountTransactionV1]
        \cup [variant : {"V3"}, tx : DeployAccountTransactionV3]

DeployTransaction ==
    [version : TransactionVersion, class_hash : ClassHash,
     contract_address_salt : ContractAddressSalt, constructor_calldata : Calldata]

InvokeTransactionV0 ==
    [max_fee : Fee, signature : TransactionSignature,
     contract_address : ContractAddress,
     entry_point_selector : EntryPointSelector, calldata : Calldata]

InvokeTransactionV1 ==
    [account_params : AccountParams, sender_address : ContractAddress,
     calldata : Calldata]

InvokeTransactionV3 ==
    [transaction_params : TransactionParamsV3, sender_address : ContractAddress,
     calldata : Calldata]

InvokeTransaction ==
    [variant : {"V0"}, tx : InvokeTransactionV0]
        \cup [variant : {"V1"}, tx : InvokeTransactionV1]
        \cup [variant : {"V3"}, tx : InvokeTransactionV3]

L1HandlerTransaction ==
    [version : TransactionVersion, nonce : Nonce,
     contract_address : ContractAddress,
     entry_point_selector : EntryPointSelector, calldata : Calldata]

Transaction ==
    [variant : {"Declare"}, tx : DeclareTransaction]
        \cup [variant : {"Deploy"}, tx : DeployTransaction]
        \cup [variant : {"DeployAccount"}, tx : DeployAccountTransaction]
        \cup [variant : {"Invoke"}, tx : InvokeTransaction]
        \cup [variant : {"L1Handler"}, tx : L1HandlerTransaction]

\* A variant that answers a V3 transaction with a fee of 0.
DeclareTransaction_max_fee_defaulted(self) ==
    CASE self.variant = "V0" -> Some(self.tx.account_params.max_fee)
      [] self.variant = "V1" -> Some(self.tx.account_params.max_fee)
      [] self.variant = "V2" -> Some(self.tx.account_params.max_fee)
      [] self.variant = "V3" -> Some(0)

\* DeclareTransaction::max_fee
DeclareTransaction_max_fee(self) ==
    CASE self.variant = "V0" -> Some(self.tx.account_params.max_fee)
      [] self.variant = "V1" -> Some(self.tx.account_params.max_fee)
      [] self.variant = "V2" -> Some(self.tx.account_params.max_fee)
      [] self.variant = "V3" -> None

\* DeployAccountTransaction::max_fee
DeployAccountTransaction_max_fee(self) ==
    CASE self.variant = "V1" -> Some(self.tx.account_params.max_fee)
      [] self.variant = "V3" -> None

\* InvokeTransaction::max_fee
InvokeTransaction_max_fee(self) ==
    CASE self.variant = "V0" -> Some(self.tx.max_fee)
      [] self.variant = "V1" -> Some(self.tx.account_params.max_fee)
      [] self.variant = "V3" -> None

\* DeclareTransaction::nonce
DeclareTransaction_nonce(self) ==
    CASE self.variant = "V0" -> self.tx.account_params.nonce
      [] self.variant = "V1" -> self.tx.account_params.nonce
      [] self.variant = "V2" -> self.tx.account_params.nonce
      [] self.variant = "V3" -> self.tx.transaction_params.nonce

\* DeployAccountTransaction::nonce
DeployAccountTransaction_nonce(self) ==
    CASE self.variant = "V1" -> self.tx.account_params.nonce
      [] self.variant = "V3" -> self.tx.transaction_params.nonce

\* A variant that answers a V0 transaction with the nonce 0.
InvokeTransaction_nonce_defaulted(self) ==
    CASE self.variant = "V0" -> Some(0)
      [] self.variant = "V1" -> Some(self.tx.account_params.nonce)
      [] self.variant = "V3" -> Some(self.tx.transaction_params.nonce)

\* InvokeTransaction::nonce
InvokeTransaction_nonce(self) ==
    CASE self.variant = "V0" -> None
      [] self.variant = "V1" -> Some(self.tx.account_params.nonce)
      [] self.variant = "V3" -> Some(self.tx.transaction_params.nonce)

\* DeclareTransaction::version
DeclareTransaction_version(self) ==
    CASE self.variant = "V0" -> 0
      [] self.variant = "V1" -> 1
      [] self.variant = "V2" -> 2
      [] self.variant = "V3" -> 3

\* DeployAccountTransaction::version
DeployAccountTransaction_version(self) ==
    CASE self.variant = "V1" -> 1
      [] self.variant = "V3" -> 3

\* InvokeTransaction::version
InvokeTransaction_version(self) ==
    CASE self.variant = "V0" -> 0
      [] self.variant = "V1" -> 1
      [] self.variant = "V3" -> 3

\* A transaction is at hand and no validator: the validator's variables are
\* at rest throughout.
InitTransaction ==
    /\ txn \in {Some(t) : t \in Transaction}
    /\ accessor = "none"
    /\ answer = None
    /\ NoBatcherCalls
    /\ general_config \in GeneralConfig
    /\ max_recursion_depth \in RecursionDepth
    /\ max_nonce_for_validation_skip = 0
    /\ tx_executor = None
    /\ op = "idle"
    /\ call_tx = None
    /\ call_hash = None
    /\ result = Ok
    /\ trace = <<>>
    /\ skip_validate = None
    /\ pre_executor = None
    /\ reported_cost = None
    /\ call_setup = None
    /\ created_with =
           [general_config |-> general_config,
            max_recursion_depth |-> max_recursion_depth,
            max_nonce_for_validation_skip |-> Some(max_nonce_for_validation_skip)]
    /\ set_up = FALSE

\* The validator's part of the state.
validator ==
    <<config, tx_executor, call, created_with, set_up>>

\* A call of max_fee() on a declare transaction.
DeclareMaxFee ==
    /\ \E t \in txn :
           /\ t.variant = "Declare"
           /\ answer' = DeclareTransaction_max_fee(t.tx)
    /\ accessor' = "max_fee"
    /\ UNCHANGED <<txn, validator, batcher>>

\* A call of max_fee() on a deploy-account transaction.
DeployAccountMaxFee ==
    /\ \E t \in txn :
           /\ t.variant = "DeployAccount"
           /\ answer' = DeployAccountTransaction_max_fee(t.tx)
    /\ accessor' = "max_fee"
    /\ UNCHANGED <<txn, validator, batcher>>

\* A call of max_fee() on an invoke transaction.
InvokeMaxFee ==
    /\ \E t \in txn :
           /\ t.variant = "Invoke"
           /\ answer' = InvokeTransaction_max_fee(t.tx)
    /\ accessor' = "max_fee"
    /\ UNCHANGED <<txn, validator, batcher>>

\* A call of nonce() on a declare transaction.
DeclareNonce ==
    /\ \E t \in txn :
           /\ t.variant = "Declare"
           /\ answer' = DeclareTransaction_nonce(t.tx)
    /\ accessor' = "nonce"
    /\ UNCHANGED <<txn, validator, batcher>>

\* A call of nonce() on a deploy-account transaction.
DeployAccountNonce ==
    /\ \E t \in txn :
           /\ t.variant = "DeployAccount"
           /\ answer' = DeployAccountTransaction_nonce(t.tx)
    /\ accessor' = "nonce"
    /\ UNCHANGED <<txn, validator, batcher>>

\* A call of nonce() on an invoke transaction.
InvokeNonce ==
    /\ \E t \in txn :
           /\ t.variant = "Invoke"
           /\ answer' = InvokeTransaction_nonce(t.tx)
    /\ accessor' = "nonce"
    /\ UNCHANGED <<txn, validator, batcher>>

\* A call of version() on a declare transaction.
DeclareVersion ==
    /\ \E t \in txn :
           /\ t.variant = "Declare"
           /\ answer' = DeclareTransaction_version(t.tx)
    /\ accessor' = "version"
    /\ UNCHANGED <<txn, validator, batcher>>

\* A call of version() on a deploy-account transaction.
DeployAccountVersion ==
    /\ \E t \in txn :
           /\ t.variant = "DeployAccount"
           /\ answer' = DeployAccountTransaction_version(t.tx)
    /\ accessor' = "version"
    /\ UNCHANGED <<txn, validator, batcher>>

\* A call of version() on an invoke transaction.
InvokeVersion ==
    /\ \E t \in txn :
           /\ t.variant = "Invoke"
           /\ answer' = InvokeTransaction_version(t.tx)
    /\ accessor' = "version"
    /\ UNCHANGED <<txn, validator, batcher>>

NextTransaction ==
    \/ DeclareMaxFee
    \/ DeployAccountMaxFee
    \/ InvokeMaxFee
    \/ DeclareNonce
    \/ DeployAccountNonce
    \/ InvokeNonce
    \/ DeclareVersion
    \/ DeployAccountVersion
    \/ InvokeVersion

SpecTransaction == InitTransaction /\ [][NextTransaction]_vars

\* ------------------------------------------------- the batcher client
\* The inputs, payloads and errors of the batcher's operations.
BatcherInput == {"i1"}
BatcherPayload == {"p1", "p2"}
BatcherError == {"e1"}
ClientError == {"CommunicationFailure", "UnexpectedResponse"}

\* Result<T, E>
ResultOk(v) == [tag |-> "Ok", value |-> v]
ResultErr(e) == [tag |-> "Err", value |-> e]
BatcherResult == {ResultOk(p) : p \in BatcherPayload} \cup {ResultErr(e) : e \in BatcherError}

\* enum BatcherResponse
BatcherResponseVariant ==
    {"ProposeBlock", "GetCurrentHeight", "GetProposalContent", "ValidateBlock",
     "SendProposalContent", "StartHeight", "DecisionReached", "AddSyncBlock"}
BatcherResponse == [variant : BatcherResponseVariant, result : BatcherResult]

\* enum BatcherRequest
BatcherRequest(variant, input) == [variant |-> variant, input |-> input]

\* What send answers: a response of the batcher, or the transport's failure.
SendResult ==
    {ResultOk(r) : r \in BatcherResponse} \cup {ResultErr("CommunicationFailure")}

\* enum BatcherClientError, with its two From conversions.
BatcherClientError(variant, error) == [variant |-> variant, error |-> error]
BatcherClientError_from(error) ==
    IF error \in ClientError
    THEN BatcherClientError("ClientError", error)
    ELSE BatcherClientError("BatcherError", error)

\* handle_response_variants!: a failed send is returned through ?, a
\* response of the named variant gives its payload or its error in the named
\* error variant, and any other response is an unexpected response.
handle_response_variants(response, variant, component_error) ==
    IF response.tag = "Err"
    THEN ResultErr(BatcherClientError_from(response.value))
    ELSE IF response.value.variant = variant
    THEN IF response.value.result.tag = "Ok"
         THEN ResultOk(response.value.result.value)
         ELSE ResultErr(BatcherClientError(component_error, response.value.result.value))
    ELSE ResultErr(BatcherClientError("ClientError", "UnexpectedResponse"))

\* A variant that reports the batcher's error as a client error.
propose_block_one_channel(response) ==
    handle_response_variants(response, "ProposeBlock", "ClientError")

\* fn propose_block: its request, and what it makes of the answer of send.
propose_block_request(input) == BatcherRequest("ProposeBlock", input)
propose_block(response) ==
    handle_response_variants(response, "ProposeBlock", "BatcherError")

\* fn get_proposal_content
get_proposal_content_request(input) == BatcherRequest("GetProposalContent", input)
get_proposal_content(response) ==
    handle_response_variants(response, "GetProposalContent", "BatcherError")

\* A variant that reads the answer as the response of propose_block.
validate_block_as_propose_block(response) ==
    handle_response_variants(response, "ProposeBlock", "BatcherError")

\* fn validate_block
validate_block_request(input) == BatcherRequest("ValidateBlock", input)
validate_block(response) ==
    handle_response_variants(response, "ValidateBlock", "BatcherError")

\* fn send_proposal_content
send_proposal_content_request(input) == BatcherRequest("SendProposalContent", input)
send_proposal_content(response) ==
    handle_response_variants(response, "SendProposalContent", "BatcherError")

\* fn start_height
start_height_request(input) == BatcherRequest("StartHeight", input)
start_height(response) ==
    handle_response_variants(response, "StartHeight", "BatcherError")

\* fn get_height
get_height_request == BatcherRequest("GetCurrentHeight", "-")
get_height(response) ==
    handle_response_variants(response, "GetCurrentHeight", "BatcherError")

\* fn decision_reached
decision_reached_request(input) == BatcherRequest("DecisionReached", input)
decision_reached(response) ==
    handle_response_variants(response, "DecisionReached", "BatcherError")

\* fn add_sync_block
add_sync_block_request(sync_block) == BatcherRequest("AddSyncBlock", sync_block)
add_sync_block(response) ==
    handle_response_variants(response, "AddSyncBlock", "BatcherError")

\* The second half of the method a caller is in.
handle_response(method, response) ==
    CASE method = "propose_block" -> propose_block(response)
      [] method = "get_proposal_content" -> get_proposal_content(response)
      [] method = "validate_block" -> validate_block(response)
      [] method = "send_proposal_content" -> send_proposal_content(response)
      [] method = "start_height" -> start_height(response)
      [] method = "get_height" -> get_height(response)
      [] method = "decision_reached" -> decision_reached(response)
      [] method = "add_sync_block" -> add_sync_block(response)

\* No call is going, no validator and no transaction is at hand.
InitBatcher ==
    /\ NoBatcherCalls
    /\ txn = None
    /\ accessor = "none"
    /\ answer = None
    /\ general_config \in GeneralConfig
    /\ max_recursion_depth \in RecursionDepth
    /\ max_nonce_for_validation_skip = 0
    /\ tx_executor = None
    /\ op = "idle"
    /\ call_tx = None
    /\ call_hash = None
    /\ result = Ok
    /\ trace = <<>>
    /\ skip_validate = None
    /\ pre_executor = None
    /\ reported_cost = None
    /\ call_setup = None
    /\ created_with =
           [general_config |-> general_config,
            max_recursion_depth |-> max_recursion_depth,
            max_nonce_for_validation_skip |-> Some(max_nonce_for_validation_skip)]
    /\ set_up = FALSE

\* A variant of the first half of a method that sends its request again.
SendTwice(k, method, request) ==
    /\ client_call[k].pc = "idle"
    /\ client_call' =
           [client_call EXCEPT ![k] =
               [NoCall EXCEPT !.pc = "awaiting", !.method = method,
                              !.request = request, !.sent = 2]]
    /\ requests' = [requests EXCEPT ![k] = Append(Append(@, request), request)]
    /\ UNCHANGED <<responses, validator, inspection>>

\* The first half of a method: the caller k builds the request and hands it
\* to send, once, and awaits the answer.
Send(k, method, request) ==
    /\ client_call[k].pc = "idle"
    /\ client_call' =
           [client_call EXCEPT ![k] =
               [NoCall EXCEPT !.pc = "awaiting", !.method = method,
                              !.request = request, !.sent = 1]]
    /\ requests' = [requests EXCEPT ![k] = Append(@, request)]
    /\ UNCHANGED <<responses, validator, inspection>>

ProposeBlock(k, input) == Send(k, "propose_block", propose_block_request(input))
GetProposalContent(k, input) ==
    Send(k, "get_proposal_content", get_proposal_content_request(input))
ValidateBlock(k, input) == Send(k, "validate_block", validate_block_request(input))
SendProposalContent(k, input) ==
    Send(k, "send_proposal_content", send_proposal_content_request(input))
StartHeight(k, input) == Send(k, "start_height", start_height_request(input))
GetHeight(k) == Send(k, "get_height", get_height_request)
DecisionReached(k, input) ==
    Send(k, "decision_reached", decision_reached_request(input))
AddSyncBlock(k, sync_block) ==
    Send(k, "add_sync_block", add_sync_block_request(sync_block))

\* The transport: a request of k is taken up and answered, by a response of
\* the batcher or by a failure, on the response channel the request carries.
Answer(k, outcome) ==
    /\ requests[k] # <<>>
    /\ requests' = [requests EXCEPT ![k] = Tail(@)]
    /\ responses' =
           [responses EXCEPT ![k] = Append(@, [origin |-> k, outcome |-> outcome])]
    /\ UNCHANGED <<client_call, validator, inspection>>

\* The second half of a method: the awaited answer of send arrives and the
\* method returns what handle_response_variants! makes of it.
Complete(k) ==
    /\ client_call[k].pc = "awaiting"
    /\ responses[k] # <<>>
    /\ client_call' =
           [client_call EXCEPT ![k] =
               [@ EXCEPT !.pc = "returned",
                         !.consumed = @ + 1,
                         !.from = Head(responses[k]).origin,
                         !.got = Head(responses[k]).outcome,
                         !.result = handle_response(client_call[k].method,
                                                    Head(responses[k]).outcome)]]
    /\ responses' = [responses EXCEPT ![k] = Tail(@)]
    /\ UNCHANGED <<requests, validator, inspection>>

\* The caller takes the result; what is left of the call's traffic is dropped
\* with the call.
ClientReturn(k) ==
    /\ client_call[k].pc = "returned"
    /\ client_call' = [client_call EXCEPT ![k] = NoCall]
    /\ requests' = [requests EXCEPT ![k] = <<>>]
    /\ responses' = [responses EXCEPT ![k] = <<>>]
    /\ UNCHANGED <<validator, inspection>>

NextBatcher ==
    \/ \E k \in Callers, i \in BatcherInput : ProposeBlock(k, i)
    \/ \E k \in Callers, i \in BatcherInput : GetProposalContent(k, i)
    \/ \E k \in Callers, i \in BatcherInput : ValidateBlock(k, i)
    \/ \E k \in Callers, i \in BatcherInput : SendProposalContent(k, i)
    \/ \E k \in Callers, i \in BatcherInput : StartHeight(k, i)
    \/ \E k \in Callers : GetHeight(k)
    \/ \E k \in Callers, i \in BatcherInput : DecisionReached(k, i)
    \/ \E k \in Callers, i \in BatcherInput : AddSyncBlock(k, i)
    \/ \E k \in Callers, o \in SendResult : Answer(k, o)
    \/ \E k \in Callers : Complete(k)
    \/ \E k \in Callers : ClientReturn(k)

SpecBatcher == InitBatcher /\ [][NextBatcher]_vars

\* ------------------------------------------------------ the call record
\* The call at hand is perform_validations.
PV == op = "perform_validations"
\* py_account_tx accepted the transaction of the call.
Converted == result.kind # "ConversionError"
\* The transaction of the call, the executor it found, and the sender's
\* nonce cell before and after it.
Tx == unwrap(call_tx)
PreNonce == unwrap(pre_executor).state.nonce[Tx.sender_address]
PostNonce == unwrap(tx_executor).state.nonce[Tx.sender_address]
\* The call ran this stage.
Ran(s) == \E i \in 1..Len(trace) : trace[i].stage = s

\* ------------------------------------------------------------- properties

\* C1: the skip check answers true exactly when the hint is present and the
\* sender's on-chain nonce is 0, the transaction's nonce is at least 1, and
\* the transaction's nonce is at most max_nonce_for_validation_skip.
C1_SkipIffAllThreeHold ==
    (PV /\ is_some(skip_validate)) =>
        (unwrap(skip_validate) <=>
            /\ call_hash # None
            /\ PreNonce = 0
            /\ Tx.nonce >= 1
            /\ Tx.nonce <= max_nonce_for_validation_skip)

\* A call whose skip check answered true at the threshold itself.
C1_Witness ==
    /\ PV
    /\ skip_validate = Some(TRUE)
    /\ Tx.nonce = max_nonce_for_validation_skip

\* C2: setup on a validator that holds a live executor panics on its
\* assertion and leaves that executor in place.
C2_SetupWhileLivePanics ==
    (op = "setup_validation_context" /\ is_some(pre_executor)) =>
        /\ result = Panic(ShouldBeTornDown)
        /\ tx_executor = pre_executor

\* A second setup with no teardown since the first one succeeded.
C2_Witness ==
    /\ op = "setup_validation_context"
    /\ set_up
    /\ is_some(pre_executor)
    /\ result.kind = "Panic"

C4_LiveExactlyBetweenSetupAndTeardown ==
    /\ Cardinality(tx_executor) <= 1
    /\ is_some(tx_executor) <=> set_up

\* C5: teardown and close always succeed and leave the validator without an
\* executor, whether or not it held one; on a validator without one they
\* change nothing.
C5_TeardownAlwaysUninitialized ==
    (op \in {"teardown_validation_context", "close"}) =>
        /\ IsOk(result)
        /\ is_none(tx_executor)
        /\ is_none(pre_executor) => tx_executor = pre_executor

\* A close on a validator that was already torn down.
C5_Witness ==
    /\ op = "close"
    /\ is_none(pre_executor)
    /\ is_none(tx_executor)

\* C6: for a DeployAccount, perform_validations invokes the execution and
\* nothing else (no skip check, pre-validation, validate program or
\* post-validation), and returns Ok when the execution succeeds.
C6_DeployAccountIsExecuted ==
    (/\ PV
     /\ Converted
     /\ is_some(pre_executor)
     /\ Tx.kind = "DeployAccount") =>
        /\ Stages(trace) = <<"execute">>
        /\ skip_validate = None
        /\ IsOk(trace[1].out) => IsOk(result)

\* A DeployAccount whose execution succeeded.
C6_Witness ==
    /\ PV
    /\ Tx.kind = "DeployAccount"
    /\ Ran("execute")
    /\ IsOk(result)

\* C7: when the skip check answers true and pre-validation succeeds,
\* perform_validations returns Ok having invoked neither the validate
\* program nor post-validation.
C7_SkippedReturnsAfterPreValidation ==
    (/\ PV
     /\ skip_validate = Some(TRUE)
     /\ \E i \in 1..Len(trace) :
            trace[i].stage = "pre_validation" /\ IsOk(trace[i].out)) =>
        /\ IsOk(result)
        /\ ~Ran("validate")
        /\ ~Ran("post_validation")

\* A skipped Declare whose pre-validation succeeded.
C7_Witness ==
    /\ PV
    /\ Tx.kind = "Declare"
    /\ skip_validate = Some(TRUE)
    /\ Stages(trace) = <<"skip_check", "pre_validation">>
    /\ IsOk(result)

\* C8: whenever the skip check has answered, pre-validation runs next,
\* whatever the answer; for a skipped transaction the sender's nonce cell has
\* advanced although the validate program was not invoked.
C8_PreValidationRunsRegardlessOfSkip ==
    (PV /\ is_some(skip_validate)) =>
        /\ Len(trace) >= 2
        /\ trace[2].stage = "pre_validation"
        /\ skip_validate = Some(TRUE) =>
               /\ PostNonce = PreNonce + 1
               /\ ~Ran("validate")

\* A skipped transaction that left the sender's nonce cell at 1.
C8_Witness ==
    /\ PV
    /\ skip_validate = Some(TRUE)
    /\ PreNonce = 0
    /\ PostNonce = 1
    /\ ~Ran("validate")

\* C9: a call that is not skipped and in which no stage fails has invoked
\* skip check, pre-validation, validate program and post-validation, each
\* once and in this order, and returns Ok.
C9_StagesInOrder ==
    (/\ PV
     /\ skip_validate = Some(FALSE)
     /\ \A i \in 1..Len(trace) : IsOk(trace[i].out)) =>
        /\ Stages(trace) =
               <<"skip_check", "pre_validation", "validate", "post_validation">>
        /\ IsOk(result)

\* A call that went through all four stages.
C9_Witness ==
    /\ PV
    /\ skip_validate = Some(FALSE)
    /\ Len(trace) = 4
    /\ IsOk(result)

\* C10: the result of perform_validations is the outcome of the last stage it
\* invoked; every stage before that one succeeded, and no stage was invoked
\* twice.
C10_FirstFailureReturnedUnchanged ==
    (PV /\ trace # <<>>) =>
        /\ result = trace[Len(trace)].out
        /\ \A i \in 1..Len(trace) - 1 : IsOk(trace[i].out)
        /\ \A i, j \in 1..Len(trace) : trace[i].stage = trace[j].stage => i = j

\* A call whose validate program failed with the engine's second diagnostic.
C10_Witness ==
    /\ PV
    /\ result = Err("ValidationProgramFailure", "d2")
    /\ Len(trace) = 3

\* C11: when the cost the validate program reported exceeds what the sender
\* committed to, post-validation answers ResourceBoundsExceededError and
\* perform_validations returns that very error.
C11_CostAboveCommitmentIsRejected ==
    (PV /\ is_some(reported_cost) /\ unwrap(reported_cost) > Tx.max_fee) =>
        /\ trace[Len(trace)] =
               Stage("post_validation", Err("ResourceBoundsExceededError", "-"))
        /\ result = trace[Len(trace)].out

\* A reported cost of 2 against a commitment of 1.
C11_Witness ==
    /\ PV
    /\ reported_cost = Some(2)
    /\ Tx.max_fee = 1
    /\ result.kind = "ResourceBoundsExceededError"

\* What the stage s of the call returned, and the sender's balance as the
\* call found it.
StageOut(s) == trace[CHOOSE i \in 1..Len(trace) : trace[i].stage = s].out
PreBalance == unwrap(pre_executor).state.balance[Tx.sender_address]
\* The sender's nonce cell advanced by one.
SenderNonceAdvanced(ex) ==
    {[e EXCEPT !.state.nonce[Tx.sender_address] = @ + 1] : e \in ex}

\* C12: pre-validation runs in non-strict nonce mode: a transaction whose
\* nonce is at least the sender's on-chain nonce passes the nonce check (and
\* the nonce cell advances), one whose nonce is lower is rejected with
\* NonceMismatchError.
C12_NonStrictNonceCheck ==
    (PV /\ Ran("pre_validation")) =>
        /\ Tx.nonce >= PreNonce =>
               /\ StageOut("pre_validation").kind # "NonceMismatchError"
               /\ PostNonce = PreNonce + 1
        /\ Tx.nonce < PreNonce =>
               /\ StageOut("pre_validation") = Err("NonceMismatchError", "-")
               /\ result = Err("NonceMismatchError", "-")

\* A transaction whose nonce is above the on-chain nonce passed.
C12_Witness ==
    /\ PV
    /\ Ran("pre_validation")
    /\ Tx.nonce > PreNonce
    /\ IsOk(StageOut("pre_validation"))

C14_NoRollbackAfterFeeCheckError ==
    (PV /\ result.kind = "FeeCheckError") =>
        /\ PostNonce = PreNonce + 1
        /\ tx_executor = SenderNonceAdvanced(pre_executor)

\* A fee check that failed with the sender's nonce cell advanced from 0 to 1.
C14_Witness ==
    /\ PV
    /\ result.kind = "FeeCheckError"
    /\ PreNonce = 0
    /\ PostNonce = 1

\* C15: after perform_validations succeeded for a transaction whose nonce was
\* the sender's on-chain nonce, the nonce cell has advanced, and
\* perform_validations of the same transaction on the executor as it is now
\* fails the nonce check, whatever the hint and the collaborators' answers.
C15_SecondCallFailsNonceCheck ==
    (/\ PV
     /\ IsOk(result)
     /\ Ran("pre_validation")
     /\ Tx.nonce = PreNonce) =>
        /\ PostNonce = PreNonce + 1
        /\ \A h \in {None} \cup {Some(x) : x \in TxHash}, ext \in External :
               (IsOk(ext.conv) /\ IsOk(ext.read)) =>
                   perform_validations(tx_executor, max_nonce_for_validation_skip,
                                       Tx, h, ext).result
                       = Err("NonceMismatchError", "-")

\* A successful call for a transaction whose nonce was the on-chain nonce.
C15_Witness ==
    /\ PV
    /\ IsOk(result)
    /\ Len(trace) = 4
    /\ Tx.nonce = PreNonce

\* C16: in no step from a validator with an executor to a validator with an
\* executor does a nonce cell decrease.
C16_NonceNeverDecreasesWhileLive ==
    [][(is_some(tx_executor) /\ is_some(tx_executor')) =>
           \A a \in Address :
               unwrap(tx_executor').state.nonce[a]
                   >= unwrap(tx_executor).state.nonce[a]]_vars

\* A failed perform_validations that left every nonce cell as it was, one of
\* them above 0.
C16_Witness ==
    /\ PV
    /\ ~IsOk(result)
    /\ is_some(pre_executor)
    /\ PreNonce > 0
    /\ PostNonce = PreNonce

C18_ConfigurationAsPassedIn ==
    /\ general_config = created_with.general_config
    /\ max_recursion_depth = created_with.max_recursion_depth
    /\ \A n \in created_with.max_nonce_for_validation_skip :
           max_nonce_for_validation_skip = n

\* C19: when the nonce read of the skip check fails, perform_validations
\* returns the reader's error as it is, the skip check was invoked once and
\* nothing after it, and the executor, with every nonce and balance cell, is
\* as the call found it.
C19_FailedNonceReadIsReturned ==
    (PV /\ Ran("skip_check") /\ ~IsOk(StageOut("skip_check"))) =>
        /\ StageOut("skip_check").kind = "StateReadError"
        /\ result = StageOut("skip_check")
        /\ Stages(trace) = <<"skip_check">>
        /\ tx_executor = pre_executor

\* A nonce read that failed for a transaction pre-validation would have
\* accepted, with a state write.
C19_Witness ==
    /\ PV
    /\ result = Err("StateReadError", "d2")
    /\ is_some(pre_executor)
    /\ Tx.nonce >= PreNonce

\* ------------------------------------------- the transaction at hand
\* The struct of the transaction at hand, under its variant tags.
Versioned(t) == t.variant \in {"Declare", "DeployAccount", "Invoke"}
StructOf(t) == IF Versioned(t) THEN t.tx.tx ELSE t.tx
IsV3(t) == Versioned(t) /\ t.tx.variant = "V3"
\* The struct has a max_fee field, of its own or in its AccountParams; it has
\* resource bounds, in its TransactionParamsV3.
CarriesMaxFee(t) ==
    \/ "max_fee" \in DOMAIN StructOf(t)
    \/ "account_params" \in DOMAIN StructOf(t)
CarriesResourceBounds(t) == "transaction_params" \in DOMAIN StructOf(t)
StoredMaxFee(t) ==
    IF "max_fee" \in DOMAIN StructOf(t)
    THEN StructOf(t).max_fee
    ELSE StructOf(t).account_params.max_fee

\* C20: every transaction variant carries exactly one of max_fee and resource
\* bounds; max_fee() answers none for a V3 variant, which carries resource
\* bounds, and the stored max_fee for any other variant, which carries none.
C20_ExactlyOneFeeModelPerVariant ==
    \A t \in txn :
        /\ CarriesMaxFee(t) # CarriesResourceBounds(t)
        /\ CarriesResourceBounds(t) = IsV3(t)
        /\ accessor = "max_fee" =>
               answer = IF IsV3(t) THEN None ELSE Some(StoredMaxFee(t))

\* C20, amended: the above for every variant of Declare, DeployAccount and
\* Invoke; a Deploy and an L1Handler transaction carry neither max_fee nor
\* resource bounds.
C20_ExactlyOneFeeModelPerVersionedVariant ==
    \A t \in txn :
        /\ Versioned(t) =>
               /\ CarriesMaxFee(t) # CarriesResourceBounds(t)
               /\ CarriesResourceBounds(t) = IsV3(t)
               /\ accessor = "max_fee" =>
                      answer = IF IsV3(t) THEN None ELSE Some(StoredMaxFee(t))
        /\ ~Versioned(t) =>
               /\ ~CarriesMaxFee(t)
               /\ ~CarriesResourceBounds(t)
               /\ accessor = "none"

\* max_fee() of a declare V3 transaction answered none.
C20_Witness ==
    /\ accessor = "max_fee"
    /\ answer = None
    /\ \E t \in txn : t.variant = "Declare" /\ IsV3(t)

\* The struct stores a nonce: a field of its own, or the one of its
\* AccountParams or TransactionParamsV3.
StoresNonce(t) ==
    \/ "nonce" \in DOMAIN StructOf(t)
    \/ "account_params" \in DOMAIN StructOf(t)
    \/ "transaction_params" \in DOMAIN StructOf(t)
StoredNonce(t) ==
    IF "nonce" \in DOMAIN StructOf(t)
    THEN StructOf(t).nonce
    ELSE IF "account_params" \in DOMAIN StructOf(t)
    THEN StructOf(t).account_params.nonce
    ELSE StructOf(t).transaction_params.nonce
IsInvokeV0(t) == t.variant = "Invoke" /\ t.tx.variant = "V0"
\* The variants the contract calls nonce-less.
NonceLess(t) == IsInvokeV0(t) \/ t.variant \in {"Deploy", "L1Handler"}
\* What nonce() of the transaction is to answer: the nonce itself from a
\* declare or deploy-account transaction, an option from an invoke one.
NonceAnswer(t) ==
    IF t.variant = "Invoke"
    THEN IF IsInvokeV0(t) THEN None ELSE Some(StoredNonce(t))
    ELSE StoredNonce(t)

VersionOfTag(t) ==
    CASE t.tx.variant = "V0" -> 0
      [] t.tx.variant = "V1" -> 1
      [] t.tx.variant = "V2" -> 2
      [] t.tx.variant = "V3" -> 3

\* C22: no transaction stores its version in a field, and version() answers
\* the number of the variant tag, so that two transactions of one variant tag
\* have one version.
C22_VersionFromVariantTagOnly ==
    \A t \in txn :
        /\ "version" \notin DOMAIN StructOf(t)
        /\ (Versioned(t) /\ accessor = "version") => answer = VersionOfTag(t)
        /\ \A u \in Transaction :
               (~Versioned(t) /\ u.variant = t.variant) =>
                   u.tx.version = t.tx.version

\* ------------------------------------------- the batcher client's calls
\* The operation kind of a method: the variant of its request and response.
KindOf(method) ==
    CASE method = "propose_block" -> "ProposeBlock"
      [] method = "get_proposal_content" -> "GetProposalContent"
      [] method = "validate_block" -> "ValidateBlock"
      [] method = "send_proposal_content" -> "SendProposalContent"
      [] method = "start_height" -> "StartHeight"
      [] method = "get_height" -> "GetCurrentHeight"
      [] method = "decision_reached" -> "DecisionReached"
      [] method = "add_sync_block" -> "AddSyncBlock"
Returned(k) == client_call[k].pc = "returned"
\* The answer of send the call of k consumed: a failed send, a response of
\* the call's own kind that carries an error, one that carries a payload.
SendFailed(k) == client_call[k].got.tag = "Err"
OwnKind(k) ==
    /\ client_call[k].got.tag = "Ok"
    /\ client_call[k].got.value.variant = KindOf(client_call[k].method)
CarriesError(k) ==
    /\ client_call[k].got.tag = "Ok"
    /\ client_call[k].got.value.result.tag = "Err"
\* The call returned an error of the given channel.
ReturnedError(k, channel) ==
    /\ client_call[k].result.tag = "Err"
    /\ client_call[k].result.value.variant = channel

\* C23: a call that consumed a failed send returns the failure as
\* ClientError; one that consumed a response of its own kind carrying an
\* error returns that error as BatcherError; a BatcherError is returned from
\* nothing but an error carried in a response, and neither case returns
\* success.
C23_TwoErrorChannels ==
    \A k \in Callers :
        Returned(k) =>
            /\ SendFailed(k) =>
                   client_call[k].result =
                       ResultErr(BatcherClientError("ClientError",
                                                    client_call[k].got.value))
            /\ (OwnKind(k) /\ CarriesError(k)) =>
                   client_call[k].result =
                       ResultErr(BatcherClientError("BatcherError",
                                                    client_call[k].got.value.result.value))
            /\ ReturnedError(k, "BatcherError") => (OwnKind(k) /\ CarriesError(k))
            /\ client_call[k].result.tag = "Ok" => (~SendFailed(k) /\ ~CarriesError(k))

\* A call whose response carried the batcher's error returned it as
\* BatcherError.
C23_Witness ==
    \E k \in Callers :
        /\ Returned(k)
        /\ client_call[k].method = "propose_block"
        /\ OwnKind(k)
        /\ CarriesError(k)
        /\ ReturnedError(k, "BatcherError")

C26_RequestAndResponseOfOwnKind ==
    \A k \in Callers :
        /\ client_call[k].pc # "idle" =>
               /\ client_call[k].request.variant = KindOf(client_call[k].method)
               /\ \A i \in 1..Len(requests[k]) :
                      requests[k][i].variant = KindOf(client_call[k].method)
        /\ (Returned(k) /\ client_call[k].result.tag = "Ok") =>
               /\ OwnKind(k)
               /\ client_call[k].got.value.result = client_call[k].result
        /\ (Returned(k) /\ ~SendFailed(k) /\ ~OwnKind(k)) =>
               client_call[k].result.tag = "Err"

\* validate_block consumed a response of the kind of propose_block that
\* carried a payload, and returned an error.
C26_Witness ==
    \E k \in Callers :
        /\ Returned(k)
        /\ client_call[k].method = "validate_block"
        /\ client_call[k].got = ResultOk([variant |-> "ProposeBlock",
                                          result |-> ResultOk("p1")])
        /\ client_call[k].result.tag = "Err"

\* ------------------------------------------------- the skip decision
\* C25: a transaction that is skip-eligible as the call finds the state (a
\* hint, the sender's nonce cell 0, a transaction nonce from 1 to the
\* threshold) and passes pre-validation is skipped: the skip check ran before
\* pre-validation, the call returns Ok after pre-validation, and the nonce
\* cell, which the skip check read as 0, is 1.
C25_SkipDecidedBeforePreValidation ==
    (/\ PV
     /\ Ran("skip_check")
     /\ IsOk(StageOut("skip_check"))
     /\ call_hash # None
     /\ PreNonce = 0
     /\ Tx.nonce >= 1
     /\ Tx.nonce <= max_nonce_for_validation_skip
     /\ Ran("pre_validation")
     /\ IsOk(StageOut("pre_validation"))) =>
        /\ skip_validate = Some(TRUE)
        /\ Stages(trace) = <<"skip_check", "pre_validation">>
        /\ IsOk(result)
        /\ PostNonce = 1

\* A skipped transaction whose sender's nonce cell went from 0 to 1 in the
\* call.
C25_Witness ==
    /\ PV
    /\ skip_validate = Some(TRUE)
    /\ PreNonce = 0
    /\ PostNonce = 1
    /\ IsOk(result)
    /\ Stages(trace) = <<"skip_check", "pre_validation">>

\* C27: a call that takes the skip decision for a sender whose nonce cell is
\* not 0 does not skip; a call that skips found the cell at 0 and leaves it
\* above 0; and in no step from a validator with an executor to a validator
\* with an executor does a cell above 0 become 0. So between a setup and the
\* next teardown at most one call per sender skips.
C27_NoSkipOnceNonceIsNonZero ==
    /\ [](/\ (PV /\ is_some(skip_validate) /\ PreNonce > 0) =>
                 skip_validate = Some(FALSE)
          /\ (PV /\ skip_validate = Some(TRUE)) =>
                 (PreNonce = 0 /\ PostNonce > 0))
    /\ [][(is_some(tx_executor) /\ is_some(tx_executor')) =>
              \A a \in Address :
                  unwrap(tx_executor).state.nonce[a] > 0 =>
                      unwrap(tx_executor').state.nonce[a] > 0]_vars

\* A transaction with a hint and a nonce within the threshold that is not
\* skipped, for the one reason that its sender's nonce cell is not 0.
C27_Witness ==
    /\ PV
    /\ skip_validate = Some(FALSE)
    /\ call_hash # None
    /\ PreNonce > 0
    /\ Tx.nonce >= 1
    /\ Tx.nonce <= max_nonce_for_validation_skip

\* C28: the call at hand, made on the executor it found with the same
\* transaction and the same answers of the collaborators, gives one and the
\* same skip decision, result, stages and executor for every hash value the
\* hint can carry.
C28_HashValueIsIrrelevant ==
    (PV /\ is_some(call_hash)) =>
        \A ext \in External : \A h1 \in TxHash, h2 \in TxHash :
            perform_validations(pre_executor, max_nonce_for_validation_skip,
                                Tx, Some(h1), ext)
                = perform_validations(pre_executor, max_nonce_for_validation_skip,
                                      Tx, Some(h2), ext)

\* A call skipped under a hint carrying the second hash value.
C28_Witness ==
    /\ PV
    /\ call_hash = Some("h2")
    /\ skip_validate = Some(TRUE)

\* The configuration is the one the validator was constructed with.
ConfigurationKept ==
    /\ general_config = created_with.general_config
    /\ max_recursion_depth = created_with.max_recursion_depth
    /\ max_nonce_for_validation_skip \in created_with.max_nonce_for_validation_skip

\* C29: the skip check leaves the state as it found it. A call that ends at
\* the skip check leaves the executor it found; in a call that goes on,
\* pre-validation gives what it gives on the executor the call found; the
\* configuration is as constructed and the executor is still there; and the
\* skip check evaluated again on the executor the call found, with a reader
\* that answers, gives the decision the call took.
C29_SkipCheckOnlyReads ==
    (PV /\ Ran("skip_check")) =>
        /\ ConfigurationKept
        /\ is_some(pre_executor) /\ is_some(tx_executor)
        /\ ~Ran("pre_validation") => tx_executor = pre_executor
        /\ Ran("pre_validation") =>
               LET p == perform_pre_validation_stage(unwrap(pre_executor), Tx)
               IN  /\ StageOut("pre_validation") = p.out
                   /\ Len(trace) = 2 => tx_executor = Some(p.executor)
        /\ is_some(skip_validate) =>
               \A ext \in External :
                   IsOk(ext.read) =>
                       skip_validate_due_to_unprocessed_deploy_account(
                           unwrap(pre_executor), Tx, call_hash,
                           max_nonce_for_validation_skip, ext).skip_validate
                           = skip_validate

\* The skip check answered, pre-validation then rejected the transaction's
\* nonce, and the executor is as the call found it.
C29_Witness ==
    /\ PV
    /\ is_some(skip_validate)
    /\ result.kind = "NonceMismatchError"
    /\ tx_executor = pre_executor

\* C30: under a threshold of 0 no call skips, and under no threshold does a
\* call skip a transaction whose nonce is 0.
C30_NoSkipAtThresholdZeroOrNonceZero ==
    (/\ PV
     /\ is_some(skip_validate)
     /\ (max_nonce_for_validation_skip = 0 \/ Tx.nonce = 0)) =>
        skip_validate = Some(FALSE)

\* A hinted transaction of nonce 0 from a sender whose nonce cell is 0, under
\* a threshold above 0, is not skipped.
C30_Witness ==
    /\ PV
    /\ skip_validate = Some(FALSE)
    /\ call_hash # None
    /\ PreNonce = 0
    /\ Tx.nonce = 0
    /\ max_nonce_for_validation_skip > 0

====
